---- MODULE Spec2Model ----
(***************************************************************************)
(* A model of the association-and-estimation subsystem of ObjectTracker:   *)
(* MultiObjectTracker::update (src/src/multi_object_tracker.cpp) together  *)
(* with the KalmanTracker and AssignmentProblemSolver contracts it calls.  *)
(*                                                                         *)
(* Coordinates are integers.  The detections fed to update lie on the row  *)
(* y = 0, so every Euclidean distance the code computes is a whole number  *)
(* and the gate comparison is exact.  The distance threshold is the        *)
(* rational DistanceThresholdNum / DistanceThresholdDen.                   *)
(*                                                                         *)
(* Sequences are 1-based: entry k of a sequence here is element k-1 of the *)
(* std::vector in the code.  The sentinel for "unassigned" is -1 as in the *)
(* code.                                                                   *)
(*                                                                         *)
(* The second part models the detection stage in front of update:          *)
(* ContourFinder::findContours with filterOutBadContours, mergeContours    *)
(* and getCentersAndBoundingBoxes (src/src/contour_finder.cpp), called by  *)
(* the frame loop of src/src/main.cpp.  The foreground mask is the list of *)
(* its blobs, each blob being the polygon cv::findContours returns for it. *)
(* Areas are kept in units of 1/2 pixel and centroids as exact rationals.  *)
(***************************************************************************)
EXTENDS Integers, Sequences, FiniteSets, TLC

----------------------------------------------------------------------------
(* Bounds of the model *)

\* x coordinates of detections are drawn from 0..MaxCoord
MaxCoord == 2
\* at most MaxDetections detections per frame
MaxDetections == 2
\* update is called at most MaxFrames times
MaxFrames == 4
\* lifetimeThreshold and missedFramesThreshold are drawn from 0..MaxThreshold
MaxThreshold == 1
\* a bounding box extends 0..MaxBoxRadius cells around its centroid
MaxBoxRadius == 1
\* a foreground mask holds at most MaxContours blobs
MaxContours == 3
\* the blobs of a mask start at columns of 0..MaxOffset
MaxOffset == 9
\* contourSizeThreshold is drawn from 0..MaxSizeThresholdNum, over
\* SizeThresholdDen
MaxSizeThresholdNum == 1
\* the inputs of a gate are multiplied by the factors 1..MaxScale
MaxScale == 3
\* the video source holds 0..MaxSourceFrames frames
MaxSourceFrames == 3
\* at most MaxMouseEvents mouse events are delivered during a run
MaxMouseEvents == 4
\* a configured dt or acceleration noise lies 1..MaxConfigOffset above the
\* default of KalmanTracker
MaxConfigOffset == 1

(* Configuration handed to the constructor *)

\* frameSize.width, frameSize.height
FrameWidth == 4
FrameHeight == 4
\* distanceThreshold = DistanceThresholdNum / DistanceThresholdDen
DistanceThresholdNum == 1
DistanceThresholdDen == 4
\* contourSizeThreshold = contourSizeThreshold / SizeThresholdDen
SizeThresholdDen == 2
\* contourMergeThreshold = MergeThresholdNum / MergeThresholdDen
MergeThresholdNum == 1
MergeThresholdDen == 2
\* the values a KalmanTracker constructed from a point alone is given for
\* dt and the acceleration noise, in units of the default
DefaultDt == 1
DefaultNoise == 1

----------------------------------------------------------------------------
VARIABLES
    kalmanTrackers,         \* this->kalmanTrackers: the pool, in creation order
    outputPredictions,      \* the caller's output vector after the call
    idCounter,              \* the process-global ID counter of KalmanTracker
    lifetimeThreshold,      \* this->lifetimeThreshold
    missedFramesThreshold,  \* this->missedFramesThreshold
    dt,                     \* this->dt
    magnitudeOfAccelerationNoise,   \* this->magnitudeOfAccelerationNoise
    frameNumber,            \* number of update calls so far
    massCenters,            \* argument of the last call
    boundingRects,          \* argument of the last call
    trackersAtSolve,        \* the pool as the solver saw it in the last call
    solved,                 \* assignment as the solver returned it
    gated,                  \* assignment after the distance gate
    assignment,             \* assignment after the death step
    removed,                \* trackers erased by the last call
    stationary              \* <<[at, frames, id]>> while, since a call that
                            \* found the pool empty, every call has brought
                            \* exactly one detection at the same centroid at:
                            \* the number of those calls and the ID of the
                            \* tracker the first of them created; else <<>>

VARIABLES
    contourSizeThreshold,   \* this->contourSizeThreshold, numerator over
                            \* SizeThresholdDen
    suppressed,             \* <<r>> once suppressRectangle(r) was called
    foreground,             \* this->foreground at cv::findContours, last call
    filtered,               \* contours after filterOutBadContours, last call
    firstCenters,           \* massCenters handed to mergeContours, last call
    firstBoxes,             \* boundingBoxes handed to mergeContours, last call
    contours,               \* main's contours vector
    mc,                     \* main's mc vector after findContours
    boundRect               \* main's boundRect vector after findContours

trackerVars ==
    <<kalmanTrackers, outputPredictions, idCounter, lifetimeThreshold,
      missedFramesThreshold, dt, magnitudeOfAccelerationNoise, frameNumber,
      massCenters,
      boundingRects, trackersAtSolve, solved, gated, assignment, removed,
      stationary>>

VARIABLES
    scaleInput,             \* the arguments handed to the two gates, and the
                            \* factor they are multiplied by
    scaleDecisions          \* what each gate decided on the arguments as
                            \* they are and multiplied: <<>> until applied

gateVars == <<scaleInput, scaleDecisions>>

VARIABLES
    pc,                     \* where main is: "idle" before the loop is
                            \* modelled, "hasFrame", "retrieve", "track",
                            \* "mouse", "log", "done"
    opened,                 \* capture.isOpened()
    framesLeft,             \* frames the source still holds
    outputPathGiven,        \* !outputFilePath.empty()
    trackerIsNull,          \* tracker == nullptr
    mainFrameNumber,        \* main's frameNumber
    counts,                 \* what main has done so far: trackers built,
                            \* frame number at the first build, update
                            \* calls, frames shown, logToFile calls
    boundaries              \* one [hasNotQuit, hasAnotherFrame] per
                            \* evaluation of hasFrame

VARIABLES
    isDragging,             \* the globals of the mouse callback
    hasRectangle,
    triggerCallback,
    point1,
    point2,
    mouseEvents,            \* the kinds of the mouse events delivered
    pressedAt,              \* where the button went down for the drag in
                            \* progress
    drags,                  \* the completed drags: [press, release]
    suppressCalls           \* the corners of each suppressRectangle call

loopVars ==
    <<pc, opened, framesLeft, outputPathGiven, trackerIsNull, mainFrameNumber,
      counts, boundaries>>

mouseVars ==
    <<isDragging, hasRectangle, triggerCallback, point1, point2, mouseEvents,
      pressedAt, drags, suppressCalls>>

contourVars ==
    <<contourSizeThreshold, suppressed, foreground, filtered, firstCenters,
      firstBoxes, contours, mc, boundRect>>

vars == <<trackerVars, contourVars, gateVars, loopVars, mouseVars>>

----------------------------------------------------------------------------
(* Geometry: cv::Point, cv::Rect, cv::norm *)

Abs(n) == IF n < 0 THEN -n ELSE n

\* largest r with r*r <= n
ISqrt(n) == CHOOSE r \in 0..n : r * r <= n /\ (r + 1) * (r + 1) > n

\* cv::norm(p - q); exact for the collinear points of this model
Norm(p, q) ==
    IF p[2] = q[2] THEN Abs(p[1] - q[1])
    ELSE IF p[1] = q[1] THEN Abs(p[2] - q[2])
    ELSE ISqrt((p[1] - q[1]) * (p[1] - q[1]) + (p[2] - q[2]) * (p[2] - q[2]))

\* cv::Rect::contains: half-open on the right and bottom
RectContains(r, p) ==
    /\ r.x <= p[1] /\ p[1] < r.x + r.width
    /\ r.y <= p[2] /\ p[2] < r.y + r.height

----------------------------------------------------------------------------
(* KalmanTracker (kalman_tracker.hpp), modelled from its contract.          *)
(* The filter is the constant-velocity estimator in its small-measurement-  *)
(* noise limit: a correction moves the position onto the observation and    *)
(* adds the innovation to the velocity.                                     *)

\* history kept beside each tracker for the temporal properties:
\*   age      frames since the creation frame
\*   emitAge  age at the first emission, -1 before it
\*   via      "empty" if created into an empty pool, "births" otherwise
\*   unupd    consecutive frames without pairing or occlusion update
\*   run0     consecutive detection-free frames since missed was last 0
\*            at the end of a frame with detections, -1 if not applicable
\*   calls    the member functions update has called on the tracker in the
\*            current frame, in order
\*   slot     index in the pool at the end of the creation frame, 0 before
\*   paired   TRUE while the tracker was paired after gating in every frame
\*            it was in the pool at the solver's call
NewHistory(via) ==
    [age |-> 0, emitAge |-> -1, via |-> via, unupd |-> 0, run0 |-> 0,
     calls |-> <<>>, slot |-> 0, paired |-> TRUE]

\* the call op(arg) is made on t
Called(t, op, arg) ==
    [t EXCEPT !.h.calls = Append(@, [op |-> op, arg |-> arg])]

\* KalmanTracker(initPt, dt, noise): takes the next ID. The estimator of
\* this model works in units of one frame, so the track it follows does not
\* depend on step and noise; the filter keeps them as constructed.
ConfiguredTracker(pt, step, noise, id, via) ==
    [id |-> id, lifetime |-> 0, numFramesWithoutUpdate |-> 0,
     prediction |-> pt, velocity |-> <<0, 0>>, dt |-> step,
     magnitudeOfAccelerationNoise |-> noise, h |-> NewHistory(via)]

\* KalmanTracker(initPt): dt and noise are the defaults of the class
NewTracker(pt, id, via) ==
    ConfiguredTracker(pt, DefaultDt, DefaultNoise, id, via)

latestPrediction(t) == t.prediction

\* predict(): advance one step; the tracker has lived one more frame.
\* (update calls predict and correct together on every tracker it ages, and
\* on a frame without detections it calls predict only on trackers that are
\* already past the lifetime threshold, so counting the frame in predict or
\* in correct gives the same emissions.)
predict(t) ==
    Called([t EXCEPT !.prediction = <<t.prediction[1] + t.velocity[1],
                                      t.prediction[2] + t.velocity[2]>>,
                     !.lifetime = t.lifetime + 1],
           "predict", <<>>)

\* the measurement update of the filter with observation pt
Measure(t, pt) ==
    [t EXCEPT !.prediction = pt,
              !.velocity = <<t.velocity[1] + pt[1] - t.prediction[1],
                             t.velocity[2] + pt[2] - t.prediction[2]>>]

\* correct(pt): measurement update with observation pt
correct(t, pt) == Called(Measure(t, pt), "correct", <<pt>>)

\* correct(): the last prediction is the observation
correctNoObs(t) == Called(Measure(t, t.prediction), "correct", <<>>)

gotUpdate(t) ==
    Called([t EXCEPT !.numFramesWithoutUpdate = 0], "gotUpdate", <<>>)

noUpdateThisFrame(t) ==
    Called([t EXCEPT !.numFramesWithoutUpdate = t.numFramesWithoutUpdate + 1],
           "noUpdateThisFrame", <<>>)

----------------------------------------------------------------------------
(* Sequence helpers *)

Erase(s, i) == [k \in 1..(Len(s) - 1) |-> IF k < i THEN s[k] ELSE s[k + 1]]

Ids(s) == {s[k].id : k \in 1..Len(s)}

Range(s) == {s[k] : k \in 1..Len(s)}

----------------------------------------------------------------------------
(* AssignmentProblemSolver::Solve (hungarian.hpp), modelled from its        *)
(* contract: a minimum-total-cost one-to-one assignment that pairs as many  *)
(* rows as the shorter side allows.  Ties between optimal assignments are   *)
(* left open: Solve is the set of all of them.                              *)

Injections(A, B) ==
    {f \in [A -> B] : \A a, b \in A : a # b => f[a] # f[b]}

AllAssignments(nT, nC) ==
    IF nT <= nC
    THEN {[i \in 1..nT |-> f[i]] : f \in Injections(1..nT, 1..nC)}
    ELSE {[i \in 1..nT |-> IF \E j \in 1..nC : g[j] = i
                           THEN CHOOSE j \in 1..nC : g[j] = i
                           ELSE -1] : g \in Injections(1..nC, 1..nT)}

RECURSIVE TotalCost(_, _, _)
TotalCost(cost, a, i) ==
    IF i > Len(a) THEN 0
    ELSE (IF a[i] = -1 THEN 0 ELSE cost[i][a[i]]) + TotalCost(cost, a, i + 1)

Solve(cost, nT, nC) ==
    LET all == AllAssignments(nT, nC)
    IN  {a \in all : \A b \in all : TotalCost(cost, a, 1) <= TotalCost(cost, b, 1)}

----------------------------------------------------------------------------
(* MultiObjectTracker::update, step by step *)

\* line 31: outputPredictions.clear()
KeepOutput(out) == out

ClearOutput(out) == <<>>

\* lines 35-44 with >= for >: a tracker dies one frame early
RECURSIVE MarkAndEraseEarly(_, _, _)
MarkAndEraseEarly(ts, i, limit) ==
    IF i > Len(ts) THEN ts
    ELSE LET marked == [ts EXCEPT ![i] = noUpdateThisFrame(ts[i])]
         IN  IF marked[i].numFramesWithoutUpdate >= limit
             THEN MarkAndEraseEarly(Erase(marked, i), i, limit)
             ELSE MarkAndEraseEarly(marked, i + 1, limit)

\* lines 35-44 without the i-- after an erase: the tracker that moved into
\* slot i is neither marked nor tested
RECURSIVE MarkAndEraseSkipping(_, _, _)
MarkAndEraseSkipping(ts, i, limit) ==
    IF i > Len(ts) THEN ts
    ELSE LET marked == [ts EXCEPT ![i] = noUpdateThisFrame(ts[i])]
         IN  IF marked[i].numFramesWithoutUpdate > limit
             THEN MarkAndEraseSkipping(Erase(marked, i), i + 1, limit)
             ELSE MarkAndEraseSkipping(marked, i + 1, limit)

\* lines 35-44: noUpdateThisFrame on every tracker, erasing the dead ones
RECURSIVE MarkAndErase(_, _, _)
MarkAndErase(ts, i, limit) ==
    IF i > Len(ts) THEN ts
    ELSE LET marked == [ts EXCEPT ![i] = noUpdateThisFrame(ts[i])]
         IN  IF marked[i].numFramesWithoutUpdate > limit
             THEN MarkAndErase(Erase(marked, i), i, limit)
             ELSE MarkAndErase(marked, i + 1, limit)

\* lines 46-50: predict() on the trackers old enough to be shown
PredictVisible(ts, threshold) ==
    [i \in 1..Len(ts) |->
        IF ts[i].lifetime > threshold THEN predict(ts[i]) ELSE ts[i]]

\* lines 46-50: the values pushed to outputPredictions
EmitPredicted(before, after, threshold) ==
    LET shown == SelectSeq([i \in 1..Len(before) |-> i],
                           LAMBDA i : before[i].lifetime > threshold)
    IN  [k \in 1..Len(shown) |->
            [id |-> after[shown[k]].id, location |-> after[shown[k]].prediction]]

\* lines 55-61 with the tracker constructed once, before the loop
CreateInitialTrackersHoisted(centers, taken) ==
    [k \in 1..Len(centers) |->
        ConfiguredTracker(centers[k], dt, magnitudeOfAccelerationNoise,
                          taken + 1, "empty")]

\* lines 55-61: one tracker per detection when the pool is empty
CreateInitialTrackers(centers, taken) ==
    [k \in 1..Len(centers) |->
        ConfiguredTracker(centers[k], dt, magnitudeOfAccelerationNoise,
                          taken + k, "empty")]

\* lines 73-84: pairwise distances between latest predictions and centers
CostMatrix(ts, centers) ==
    [i \in 1..Len(ts) |->
        [j \in 1..Len(centers) |-> Norm(latestPrediction(ts[i]), centers[j])]]

\* lines 92, 95 with the frame size the tracker was built for in place of
\* the frame size at hand
GateExceededAbsolute(c, width, height) ==
    c * DistanceThresholdDen * 2 > DistanceThresholdNum * (FrameHeight + FrameWidth)

\* lines 92, 95: cost > distanceThreshold * 0.5 * (height + width), for a
\* tracker built with frameSize = (width, height)
GateExceededIn(c, width, height) ==
    c * DistanceThresholdDen * 2 > DistanceThresholdNum * (height + width)

\* lines 92, 95 with >= for >: a cost on the gate is rejected
GateExceededInclusive(c) ==
    c * DistanceThresholdDen * 2 >= DistanceThresholdNum * (FrameHeight + FrameWidth)

\* lines 92, 95 for the frame size of this model
GateExceeded(c) == GateExceededIn(c, FrameWidth, FrameHeight)

\* lines 93-98 with the rejected entry zeroed instead of set to -1:
\* index 0 of the code is entry 1 here
GateAssignmentZeroed(a, cost) ==
    [i \in 1..Len(a) |->
        IF a[i] # -1 /\ GateExceeded(cost[i][a[i]]) THEN 1 ELSE a[i]]

\* lines 93-98: drop the pairs beyond the gate
GateAssignment(a, cost) ==
    [i \in 1..Len(a) |->
        IF a[i] # -1 /\ GateExceeded(cost[i][a[i]]) THEN -1 ELSE a[i]]

\* lines 99-101 with noUpdateThisFrame called on every tracker
MarkUnassignedEvery(ts, a) ==
    [i \in 1..Len(ts) |-> noUpdateThisFrame(ts[i])]

\* lines 99-101: the trackers the solver left unassigned miss this frame
MarkUnassigned(ts, a) ==
    [i \in 1..Len(ts) |->
        IF i <= Len(a) /\ a[i] = -1 THEN noUpdateThisFrame(ts[i]) ELSE ts[i]]

\* lines 108-117: an unassigned tracker inside some bounding box got an update
Occluded(t, rects) ==
    \E j \in 1..Len(rects) : RectContains(rects[j], latestPrediction(t))

\* lines 108-117 with the outer loop starting at the second tracker
OcclusionUpdateFromSecond(ts, a, rects) ==
    [i \in 1..Len(ts) |->
        IF i > 1 /\ i <= Len(a) /\ a[i] = -1 /\ Occluded(ts[i], rects)
        THEN gotUpdate(ts[i]) ELSE ts[i]]

\* lines 108-117: gotUpdate for every unassigned tracker inside some box
OcclusionUpdate(ts, a, rects) ==
    [i \in 1..Len(ts) |->
        IF i <= Len(a) /\ a[i] = -1 /\ Occluded(ts[i], rects)
        THEN gotUpdate(ts[i]) ELSE ts[i]]

\* lines 120-126 without the i-- after an erase: the element that moved
\* into slot i is skipped
RECURSIVE RemoveDeadSkipping(_, _, _, _)
RemoveDeadSkipping(ts, a, i, limit) ==
    IF i > Len(ts) THEN [trackers |-> ts, assignment |-> a]
    ELSE IF ts[i].numFramesWithoutUpdate > limit
         THEN RemoveDeadSkipping(Erase(ts, i), Erase(a, i), i + 1, limit)
         ELSE RemoveDeadSkipping(ts, a, i + 1, limit)

\* lines 120-126: erase the dead trackers and their assignment entries
RECURSIVE RemoveDead(_, _, _, _)
RemoveDead(ts, a, i, limit) ==
    IF i > Len(ts) THEN [trackers |-> ts, assignment |-> a]
    ELSE IF ts[i].numFramesWithoutUpdate > limit
         THEN RemoveDead(Erase(ts, i), Erase(a, i), i, limit)
         ELSE RemoveDead(ts, a, i + 1, limit)

\* lines 129-136 with the scan starting at the second center
CentersWithoutKalmanFromSecond(a, nC) ==
    SelectSeq([j \in 1..(nC - 1) |-> j + 1], LAMBDA j : j \notin Range(a))

\* lines 129-136: the centers no tracker is assigned to
CentersWithoutKalman(a, nC) ==
    SelectSeq([j \in 1..nC |-> j], LAMBDA j : j \notin Range(a))

\* lines 139-141: one new tracker per unassigned center, constructed from
\* the center alone
CreateNewTrackers(centers, without, taken) ==
    [k \in 1..Len(without) |-> NewTracker(centers[without[k]], taken + k, "births")]

\* lines 144-153 with the loop running over the whole pool
UpdateFiltersAll(ts, a, centers) ==
    [i \in 1..Len(ts) |->
        LET p == predict(ts[i])
        IN  IF i <= Len(a) /\ a[i] # -1
            THEN gotUpdate(correct(p, centers[a[i]]))
            ELSE correctNoObs(p)]

\* lines 144-153: predict, then correct with the paired center or without one
UpdateFilters(ts, a, centers) ==
    [i \in 1..Len(ts) |->
        IF i <= Len(a)
        THEN LET p == predict(ts[i])
             IN  IF a[i] # -1
                 THEN gotUpdate(correct(p, centers[a[i]]))
                 ELSE correctNoObs(p)
        ELSE ts[i]]

\* lines 156-160 with >= for >
EmitLatestEarly(ts, threshold) ==
    LET shown == SelectSeq(ts, LAMBDA t : t.lifetime >= threshold)
    IN  [k \in 1..Len(shown) |->
            [id |-> shown[k].id, location |-> latestPrediction(shown[k])]]

\* lines 156-160: the latest prediction of every tracker old enough
EmitLatest(ts, threshold) ==
    LET shown == SelectSeq(ts, LAMBDA t : t.lifetime > threshold)
    IN  [k \in 1..Len(shown) |->
            [id |-> shown[k].id, location |-> latestPrediction(shown[k])]]

----------------------------------------------------------------------------
(* Bookkeeping of the per-tracker history; it reads the tracker state and   *)
(* never changes it.                                                        *)

\* update is entered: no call has been made in this frame
HistoryFrameStart(ts) ==
    [i \in 1..Len(ts) |-> [ts[i] EXCEPT !.h.calls = <<>>]]

\* a frame without detections has passed
HistoryNoDetections(ts) ==
    [i \in 1..Len(ts) |->
        [ts[i] EXCEPT !.h.age = @ + 1,
                      !.h.calls = <<>>,
                      !.h.paired = FALSE,
                      !.h.unupd = @ + 1,
                      !.h.run0 = IF @ >= 0 THEN @ + 1 ELSE -1]]

\* association is done: ga is the assignment after gating
HistoryAssociation(ts, ga, rects, fresh) ==
    [i \in 1..Len(ts) |->
        [ts[i] EXCEPT !.h.age = IF fresh THEN @ ELSE @ + 1,
                      !.h.paired = @ /\ ga[i] # -1,
                      !.h.unupd = IF ga[i] # -1 \/ Occluded(ts[i], rects)
                                  THEN 0 ELSE @ + 1]]

\* a frame with detections ends
HistoryRun(ts) ==
    [i \in 1..Len(ts) |->
        [ts[i] EXCEPT !.h.run0 = IF ts[i].numFramesWithoutUpdate = 0 THEN 0 ELSE -1,
                      !.h.slot = IF @ = 0 THEN i ELSE @]]

\* the trackers whose IDs are in shown have been emitted
HistoryEmit(ts, shown) ==
    [i \in 1..Len(ts) |->
        [ts[i] EXCEPT !.h.emitAge = IF @ = -1 /\ ts[i].id \in shown
                                    THEN ts[i].h.age ELSE @]]

\* the trackers of before that are not in after
Erased(before, after) == SelectSeq(before, LAMBDA t : t.id \notin Ids(after))

----------------------------------------------------------------------------
(* The inputs of update *)

Points == {<<x, 0>> : x \in 0..MaxCoord}

\* the square box of radius r around centroid c
Box(c, r) ==
    [x |-> c[1] - r, y |-> c[2] - r, width |-> 2 * r + 1, height |-> 2 * r + 1]

\* the centroids of one frame: distinct, listed left to right
CenterLists ==
    {c \in UNION {[1..n -> Points] : n \in 1..MaxDetections} :
        \A i, j \in 1..Len(c) : i < j => c[i][1] < c[j][1]}

\* the detections of one frame: each centroid with its box, the boxes of one
\* frame having the same radius
DetectionLists ==
    {[k \in 1..Len(c) |-> [center |-> c[k], rect |-> Box(c[k], r)]] :
        c \in CenterLists, r \in 0..MaxBoxRadius}

Centers(d) == [k \in 1..Len(d) |-> d[k].center]

Boxes(d) == [k \in 1..Len(d) |-> d[k].rect]

----------------------------------------------------------------------------
(* Geometry of contours: cv::contourArea, cv::moments, cv::boundingRect.   *)
(* A contour is the sequence of the vertices of a closed polygon.          *)

RECURSIVE SumSeq(_)
SumSeq(s) == IF s = <<>> THEN 0 ELSE Head(s) + SumSeq(Tail(s))

RECURSIVE Gcd(_, _)
Gcd(a, b) == IF b = 0 THEN a ELSE Gcd(b, a % b)

Max2(a, b) == IF a >= b THEN a ELSE b

Sign(n) == IF n < 0 THEN -1 ELSE 1

\* the vertex after vertex k of a closed polygon of n vertices
After(k, n) == IF k = n THEN 1 ELSE k + 1

\* the sums of Green's formula that cv::contourArea and cv::moments take
\* over the edges of c: a00 is twice the signed area, a10 and a01 are six
\* times the signed first moments
GreenSums(c) ==
    LET n == Len(c)
        d(k) == c[k][1] * c[After(k, n)][2] - c[After(k, n)][1] * c[k][2]
    IN  [a00 |-> SumSeq([k \in 1..n |-> d(k)]),
         a10 |-> SumSeq([k \in 1..n |-> d(k) * (c[k][1] + c[After(k, n)][1])]),
         a01 |-> SumSeq([k \in 1..n |-> d(k) * (c[k][2] + c[After(k, n)][2])])]

\* cv::contourArea(c), in units of 1/2 pixel
contourArea(c) == Abs(GreenSums(c).a00)

\* the quotient n / d as a rational in lowest terms; d = 0 is the NaN that
\* the float division 0 / 0 yields
Point2f(nx, ny, d) ==
    LET k == Gcd(Gcd(Abs(nx), Abs(ny)), d)
    IN  IF d = 0 THEN [nx |-> 0, ny |-> 0, d |-> 0]
        ELSE [nx |-> nx \div k, ny |-> ny \div k, d |-> d \div k]

\* line 174-175: Point2f(m10 / m00, m01 / m00) of cv::moments(c); with
\* m00 = |a00| / 2, m10 = a10 / 6 and m01 = a01 / 6 signed as a00, and all
\* three 0 when a00 is 0
MassCenter(c) ==
    LET g == GreenSums(c)
    IN  Point2f(Sign(g.a00) * g.a10, Sign(g.a00) * g.a01, 3 * Abs(g.a00))

MinOf(S) == CHOOSE m \in S : \A e \in S : m <= e

MaxOf(S) == CHOOSE m \in S : \A e \in S : m >= e

\* lines 178-179: cv::boundingRect of the polygon cv::approxPolyDP keeps of
\* c; the approximation keeps its start vertex and the vertex farthest from
\* it, which span the box of every contour of this model
BoundingRect(c) ==
    LET xs == {c[k][1] : k \in 1..Len(c)}
        ys == {c[k][2] : k \in 1..Len(c)}
    IN  [x |-> MinOf(xs), y |-> MinOf(ys),
         width |-> MaxOf(xs) - MinOf(xs) + 1,
         height |-> MaxOf(ys) - MinOf(ys) + 1]

\* the rectangle r holds every vertex of c
ContourInside(c, r) == \A k \in 1..Len(c) : RectContains(r, c[k])

----------------------------------------------------------------------------
(* ContourFinder::filterOutBadContours *)

\* lines 42-47: std::accumulate started from the int 0 keeps its running
\* maximum in an int, so every step is cut to a whole number of pixels
RECURSIVE MaxArea(_, _)
MaxArea(areas, acc) ==
    IF areas = <<>> THEN acc
    ELSE MaxArea(Tail(areas),
                 IF 2 * acc >= Head(areas) THEN acc ELSE Head(areas) \div 2)

\* line 50: int threshold = contourSizeThreshold * maxArea
SizeThreshold(maxArea, fraction) == (fraction * maxArea) \div SizeThresholdDen

\* lines 53-56 with < for <=
filterOutBadContoursStrict(cs, fraction) ==
    LET areas     == [k \in 1..Len(cs) |-> contourArea(cs[k])]
        threshold == SizeThreshold(MaxArea(areas, 0), fraction)
    IN  SelectSeq(cs, LAMBDA c : ~(contourArea(c) < 2 * threshold))

\* lines 30-57: drop the contours whose area is at most the threshold
filterOutBadContours(cs, fraction) ==
    LET areas     == [k \in 1..Len(cs) |-> contourArea(cs[k])]
        threshold == SizeThreshold(MaxArea(areas, 0), fraction)
    IN  SelectSeq(cs, LAMBDA c : ~(contourArea(c) <= 2 * threshold))

----------------------------------------------------------------------------
(* ContourFinder::getCentersAndBoundingBoxes *)

\* lines 172-180: push the center and the box of contour i, i + 1, ... onto
\* the two vectors of acc
RECURSIVE PushCentersAndBoxes(_, _, _)
PushCentersAndBoxes(cs, i, acc) ==
    IF i > Len(cs) THEN acc
    ELSE PushCentersAndBoxes(cs, i + 1,
             [massCenters   |-> Append(acc.massCenters, MassCenter(cs[i])),
              boundingBoxes |-> Append(acc.boundingBoxes, BoundingRect(cs[i]))])

\* lines 160-181 without the two clear() calls
getCentersAndBoundingBoxesAppending(cs, centersIn, boxesIn) ==
    PushCentersAndBoxes(cs, 1,
        [massCenters |-> centersIn, boundingBoxes |-> boxesIn])

\* lines 160-181: clear both vectors, then push one center and one box per
\* contour, in order
getCentersAndBoundingBoxes(cs, centersIn, boxesIn) ==
    PushCentersAndBoxes(cs, 1, [massCenters |-> <<>>, boundingBoxes |-> <<>>])

----------------------------------------------------------------------------
(* DisjointSets, as a forest: sets[i] is the parent of i, a root its own *)

DisjointSets(n) == [k \in 1..n |-> k]

RECURSIVE FindSet(_, _)
FindSet(sets, i) == IF sets[i] = i THEN i ELSE FindSet(sets, sets[i])

Union(sets, i, j) ==
    LET ri == FindSet(sets, i)
        rj == FindSet(sets, j)
    IN  IF ri = rj THEN sets ELSE [sets EXCEPT ![rj] = ri]

----------------------------------------------------------------------------
(* ContourFinder::mergeContours *)

\* lines 113-117: the centers ci and cj are closer than contourMergeThreshold
\* times the largest side of the boxes bi and bj; both sides of the
\* comparison are squared, and a NaN center compares false
MergeGate(ci, cj, bi, bj) ==
    LET dimension == Max2(Max2(bi.width, bi.height), Max2(bj.width, bj.height))
        dx == ci.nx * cj.d - cj.nx * ci.d
        dy == ci.ny * cj.d - cj.ny * ci.d
        dd == ci.d * cj.d
    IN  /\ dd # 0
        /\ MergeThresholdDen * MergeThresholdDen * (dx * dx + dy * dy)
             < MergeThresholdNum * MergeThresholdNum
                 * dimension * dimension * dd * dd

\* lines 105-121 with the inner loop starting behind the neighbour of i
RECURSIVE UnionNearbySkipping(_, _, _, _, _)
UnionNearbySkipping(sets, i, j, centers, boxes) ==
    IF i > Len(centers) THEN sets
    ELSE IF j > Len(centers)
         THEN UnionNearbySkipping(sets, i + 1, 1, centers, boxes)
         ELSE UnionNearbySkipping(
                  IF /\ j > i + 1
                     /\ MergeGate(centers[i], centers[j], boxes[i], boxes[j])
                  THEN Union(sets, i, j) ELSE sets,
                  i, j + 1, centers, boxes)

\* lines 105-121: Union(i, j) for every ordered pair within the gate
RECURSIVE UnionNearby(_, _, _, _, _)
UnionNearby(sets, i, j, centers, boxes) ==
    IF i > Len(centers) THEN sets
    ELSE IF j > Len(centers)
         THEN UnionNearby(sets, i + 1, 1, centers, boxes)
         ELSE UnionNearby(
                  IF /\ i # j
                     /\ MergeGate(centers[i], centers[j], boxes[i], boxes[j])
                  THEN Union(sets, i, j) ELSE sets,
                  i, j + 1, centers, boxes)

\* lines 125-131: itemsForSet[key], the members of the set of key, ascending
ItemsForSet(sets, key) ==
    SelectSeq([i \in 1..Len(sets) |-> i], LAMBDA i : FindSet(sets, i) = key)

\* lines 144-149 with the copy loop starting at the third member
RECURSIVE AggregateFromThird(_, _, _)
AggregateFromThird(cs, members, i) ==
    IF i > Len(members) THEN <<>>
    ELSE (IF i = 2 THEN <<>> ELSE cs[members[i]])
             \o AggregateFromThird(cs, members, i + 1)

\* lines 144-149: the points of the members, member after member
RECURSIVE Aggregate(_, _, _)
Aggregate(cs, members, i) ==
    IF i > Len(members) THEN <<>>
    ELSE cs[members[i]] \o Aggregate(cs, members, i + 1)

\* lines 135-153: the contour pushed for the map entry of key
NewContour(cs, sets, key) ==
    LET members == ItemsForSet(sets, key)
    IN  IF Len(members) = 1 THEN cs[key] ELSE Aggregate(cs, members, 1)

\* the orders in which the unordered_map can hand out its keys
KeyOrders(sets) ==
    LET keys == {FindSet(sets, i) : i \in 1..Len(sets)}
    IN  {o \in [1..Cardinality(keys) -> keys] :
            \A a, b \in 1..Cardinality(keys) : a # b => o[a] # o[b]}

\* lines 100-158: the contours vector after the call, the map iterated in
\* the order keys
mergeContours(cs, centers, boxes, keys) ==
    LET sets == UnionNearby(DisjointSets(Len(cs)), 1, 1, centers, boxes)
    IN  [k \in 1..Len(keys) |-> NewContour(cs, sets, keys[k])]

\* the key orders of the map mergeContours builds from these arguments
MergeKeyOrders(cs, centers, boxes) ==
    KeyOrders(UnionNearby(DisjointSets(Len(cs)), 1, 1, centers, boxes))

----------------------------------------------------------------------------
(* The inputs of findContours *)

\* the polygons of the blobs, with their first vertex at the origin
Bar == <<<<0, 0>>, <<0, 9>>, <<1, 9>>, <<1, 0>>>>

Sliver == <<<<0, 0>>, <<1, 9>>, <<2, 9>>>>

Line == <<<<0, 0>>, <<0, 9>>>>

Shapes == {Bar, Sliver, Line}

Shift(c, x) == [k \in 1..Len(c) |-> <<c[k][1] + x, c[k][2]>>]

\* two blobs of one mask are apart: their first columns differ by MinGap
MinGap == 4

\* the columns a blob can start at: the multiples of MinGap and the columns
\* next to them
Offsets == {x \in 0..MaxOffset : x % MinGap <= 1}

\* the masks: up to MaxContours blobs, listed left to right
BlobLists ==
    UNION {
        {[k \in 1..n |-> Shift(s[k], x[k])] :
            s \in [1..n -> Shapes],
            x \in {p \in [1..n -> Offsets] :
                      \A k \in 1..(n - 1) : p[k + 1] - p[k] >= MinGap}} :
        n \in 0..MaxContours}

\* the rectangles the mouse can drag
SuppressRects ==
    {[x |-> 0, y |-> 0, width |-> MinGap, height |-> 10],
     [x |-> MinGap, y |-> 0, width |-> MaxOffset, height |-> 10]}

\* main.cpp:251-252: vectors of contours.size() default-constructed entries
DefaultPoints(n) == [k \in 1..n |-> [nx |-> 0, ny |-> 0, d |-> 1]]

DefaultRects(n) == [k \in 1..n |-> [x |-> 0, y |-> 0, width |-> 0, height |-> 0]]

----------------------------------------------------------------------------
(* The state machine *)

\* a ContourFinder that has not been called
ContourFinderUnused ==
    /\ suppressed = <<>>
    /\ foreground = <<>>
    /\ filtered = <<>>
    /\ firstCenters = <<>>
    /\ firstBoxes = <<>>
    /\ contours = <<>>
    /\ mc = <<>>
    /\ boundRect = <<>>

\* no gate is being compared
GatesUnused ==
    /\ scaleInput = <<>>
    /\ scaleDecisions = <<>>

\* main.cpp:20-23: the globals of the mouse callback as initialised
MouseUnused ==
    /\ isDragging = FALSE
    /\ hasRectangle = FALSE
    /\ triggerCallback = FALSE
    /\ point1 = <<0, 0>>
    /\ point2 = <<0, 0>>
    /\ mouseEvents = <<>>
    /\ pressedAt = <<>>
    /\ drags = <<>>
    /\ suppressCalls = <<>>

\* main.cpp:165, 183: main before its loop, tracker == nullptr, frameNumber 0
LoopUnstarted ==
    /\ trackerIsNull = TRUE
    /\ mainFrameNumber = 0
    /\ counts = [trackers |-> 0, trackerFrame |-> 0, updates |-> 0,
                 shown |-> 0, logs |-> 0]
    /\ boundaries = <<>>

\* the frame loop of main is not followed
LoopUnused ==
    /\ pc = "idle"
    /\ opened = TRUE
    /\ framesLeft = 0
    /\ outputPathGiven = FALSE
    /\ LoopUnstarted
    /\ MouseUnused

\* lines 13-26 but for dt and the acceleration noise
TrackerConstructed ==
    /\ contourSizeThreshold = 0
    /\ ContourFinderUnused
    /\ GatesUnused
    /\ LoopUnused
    /\ kalmanTrackers = <<>>
    /\ outputPredictions = <<>>
    /\ idCounter = 0
    /\ lifetimeThreshold \in 0..MaxThreshold
    /\ missedFramesThreshold \in 0..MaxThreshold
    /\ frameNumber = 0
    /\ massCenters = <<>>
    /\ boundingRects = <<>>
    /\ trackersAtSolve = <<>>
    /\ solved = <<>>
    /\ gated = <<>>
    /\ assignment = <<>>
    /\ removed = <<>>
    /\ stationary = <<>>

\* a tracker built with every parameter but the frame size left at its
\* default, as main builds it
Init ==
    /\ TrackerConstructed
    /\ dt = DefaultDt
    /\ magnitudeOfAccelerationNoise = DefaultNoise

\* a tracker built with a dt and an acceleration noise of the caller's
InitConfigured ==
    /\ TrackerConstructed
    /\ dt \in (DefaultDt + 1)..(DefaultDt + MaxConfigOffset)
    /\ magnitudeOfAccelerationNoise
          \in (DefaultNoise + 1)..(DefaultNoise + MaxConfigOffset)

\* update(massCenters, boundingRects, out) with massCenters empty: lines 31-52
UpdateNoDetections ==
    /\ frameNumber < MaxFrames
    /\ LET aged     == HistoryNoDetections(kalmanTrackers)
           alive    == MarkAndErase(aged, 1, missedFramesThreshold)
           stepped  == PredictVisible(alive, lifetimeThreshold)
           out      == EmitPredicted(alive, stepped, lifetimeThreshold)
       IN  /\ kalmanTrackers' = HistoryEmit(stepped, Ids(out))
           /\ outputPredictions' = ClearOutput(outputPredictions) \o out
           /\ removed' = Erased(MarkUnassigned(aged, [i \in 1..Len(aged) |-> -1]), alive)
    /\ frameNumber' = frameNumber + 1
    /\ massCenters' = <<>>
    /\ boundingRects' = <<>>
    /\ trackersAtSolve' = <<>>
    /\ solved' = <<>>
    /\ gated' = <<>>
    /\ assignment' = <<>>
    /\ stationary' = <<>>
    /\ UNCHANGED <<idCounter, lifetimeThreshold, missedFramesThreshold, dt,
                   magnitudeOfAccelerationNoise>>
    /\ UNCHANGED <<contourVars, gateVars, loopVars, mouseVars>>

\* update(massCenters, boundingRects, out) with detections: lines 31, 54-160
UpdateWithDetections(d) ==
    /\ frameNumber < MaxFrames
    /\ LET centers == Centers(d)
           rects   == Boxes(d)
           fresh   == kalmanTrackers = <<>>
           pool    == IF fresh THEN CreateInitialTrackers(centers, idCounter)
                      ELSE HistoryFrameStart(kalmanTrackers)
           taken   == IF fresh THEN idCounter + Len(centers) ELSE idCounter
           cost    == CostMatrix(pool, centers)
       IN  \E a \in Solve(cost, Len(pool), Len(centers)) :
           LET ga       == GateAssignment(a, cost)
               marked   == MarkUnassigned(pool, a)
               occluded == OcclusionUpdate(marked, ga, rects)
               noted    == HistoryAssociation(occluded, ga, rects, fresh)
               left     == RemoveDead(noted, ga, 1, missedFramesThreshold)
               without  == CentersWithoutKalman(left.assignment, Len(centers))
               born     == CreateNewTrackers(centers, without, taken)
               updated  == UpdateFilters(left.trackers \o born, left.assignment, centers)
               out      == EmitLatest(updated, lifetimeThreshold)
           IN  /\ kalmanTrackers' = HistoryEmit(HistoryRun(updated), Ids(out))
               /\ outputPredictions' = ClearOutput(outputPredictions) \o out
               /\ idCounter' = taken + Len(born)
               /\ massCenters' = centers
               /\ boundingRects' = rects
               /\ trackersAtSolve' = pool
               /\ solved' = a
               /\ gated' = ga
               /\ assignment' = left.assignment
               /\ removed' = Erased(noted, left.trackers)
               /\ stationary' =
                    IF Len(centers) = 1 /\ fresh
                    THEN <<[at |-> centers[1], frames |-> 1, id |-> idCounter + 1]>>
                    ELSE IF /\ Len(centers) = 1
                            /\ stationary # <<>>
                            /\ stationary[1].at = centers[1]
                         THEN <<[stationary[1] EXCEPT !.frames = @ + 1]>>
                         ELSE <<>>
    /\ frameNumber' = frameNumber + 1
    /\ UNCHANGED <<lifetimeThreshold, missedFramesThreshold, dt,
                   magnitudeOfAccelerationNoise>>
    /\ UNCHANGED <<contourVars, gateVars, loopVars, mouseVars>>

Next ==
    \/ UpdateNoDetections
    \/ \E d \in DetectionLists : UpdateWithDetections(d)

Spec == Init /\ [][Next]_vars

SpecConfigured == InitConfigured /\ [][Next]_vars

\* the frame loop before its first tracker->update
\* a MultiObjectTracker that update has not been called on
TrackerUnused ==
    /\ kalmanTrackers = <<>>
    /\ outputPredictions = <<>>
    /\ idCounter = 0
    /\ lifetimeThreshold = 0
    /\ missedFramesThreshold = 0
    /\ dt = DefaultDt
    /\ magnitudeOfAccelerationNoise = DefaultNoise
    /\ frameNumber = 0
    /\ massCenters = <<>>
    /\ boundingRects = <<>>
    /\ trackersAtSolve = <<>>
    /\ solved = <<>>
    /\ gated = <<>>
    /\ assignment = <<>>
    /\ removed = <<>>
    /\ stationary = <<>>

InitContours ==
    /\ contourSizeThreshold \in 0..MaxSizeThresholdNum
    /\ ContourFinderUnused
    /\ GatesUnused
    /\ LoopUnused
    /\ TrackerUnused

\* main.cpp:251-253: mc and boundRect are built with the size contours has
\* from the frame before and handed to findContours, the mask of the frame
\* holding blobs.  contour_finder.cpp:59-98: contours is cleared and
\* overwritten by cv::findContours, filtered, measured, merged with the map
\* iterated in the order keys, and measured again.  Each stage is bound
\* once, in the order of the calls.
FindContours(blobs) ==
    \E kept \in {filterOutBadContours(blobs, contourSizeThreshold)} :
    \E first \in {getCentersAndBoundingBoxes(kept,
                       DefaultPoints(Len(contours)),
                       DefaultRects(Len(contours)))} :
    \E keys \in MergeKeyOrders(kept, first.massCenters, first.boundingBoxes) :
    \E merged \in {mergeContours(kept, first.massCenters,
                                  first.boundingBoxes, keys)} :
    \E second \in {getCentersAndBoundingBoxes(merged, first.massCenters,
                                               first.boundingBoxes)} :
        /\ foreground' = blobs
        /\ filtered' = kept
        /\ firstCenters' = first.massCenters
        /\ firstBoxes' = first.boundingBoxes
        /\ contours' = merged
        /\ mc' = second.massCenters
        /\ boundRect' = second.boundingBoxes
        /\ UNCHANGED <<contourSizeThreshold, suppressed, trackerVars, gateVars,
                       loopVars, mouseVars>>

\* main.cpp:276-283: contourFinder.suppressRectangle(cv::Rect(point1, point2))
SuppressRectangle(r) ==
    /\ suppressed' = <<r>>
    /\ UNCHANGED <<contourSizeThreshold, foreground, filtered, firstCenters,
                   firstBoxes, contours, mc, boundRect, trackerVars, gateVars,
                   loopVars, mouseVars>>

NextContours ==
    \/ \E blobs \in BlobLists : FindContours(blobs)
    \/ \E r \in SuppressRects : SuppressRectangle(r)

SpecContours == InitContours /\ [][NextContours]_vars

----------------------------------------------------------------------------
(* The two gates on multiplied arguments *)

ScalePoint(p, k) == <<k * p[1], k * p[2]>>

ScaleCenter(c, k) == [c EXCEPT !.nx = k * @, !.ny = k * @]

ScaleRect(r, k) ==
    [x |-> k * r.x, y |-> k * r.y, width |-> k * r.width, height |-> k * r.height]

\* the contours whose centers and boxes are handed to the merge gate
GateContours == {Shift(s, x) : s \in {Bar, Sliver}, x \in Offsets}

\* a tracker prediction and a detection center for the distance gate, the
\* centers and boxes of two contours for the merge gate, and a factor
GateInputs ==
    [factor : 1..MaxScale, prediction : Points, center : Points,
     first : {Bar, Sliver}, second : GateContours]

InitGates ==
    /\ scaleInput \in {<<g>> : g \in GateInputs}
    /\ scaleDecisions = [distance |-> <<>>, merge |-> <<>>]
    /\ contourSizeThreshold = 0
    /\ ContourFinderUnused
    /\ LoopUnused
    /\ TrackerUnused

\* multi_object_tracker.cpp:82, 92-95 on the prediction and the center as
\* they are, and on both multiplied in a frame multiplied alike
ApplyDistanceGate ==
    LET g == scaleInput[1]
        k == g.factor
    IN  /\ scaleDecisions.distance = <<>>
        /\ scaleDecisions' =
              [scaleDecisions EXCEPT !.distance =
                  <<GateExceededIn(Norm(g.prediction, g.center),
                                   FrameWidth, FrameHeight),
                    GateExceededIn(Norm(ScalePoint(g.prediction, k),
                                        ScalePoint(g.center, k)),
                                   k * FrameWidth, k * FrameHeight)>>]
        /\ UNCHANGED <<scaleInput, trackerVars, contourVars, loopVars, mouseVars>>

\* contour_finder.cpp:113-117 on the centers and boxes of the two contours
\* as they are, and on all four multiplied
ApplyMergeGate ==
    LET g  == scaleInput[1]
        k  == g.factor
        ci == MassCenter(g.first)
        cj == MassCenter(g.second)
        bi == BoundingRect(g.first)
        bj == BoundingRect(g.second)
    IN  /\ scaleDecisions.merge = <<>>
        /\ scaleDecisions' =
              [scaleDecisions EXCEPT !.merge =
                  <<MergeGate(ci, cj, bi, bj),
                    MergeGate(ScaleCenter(ci, k), ScaleCenter(cj, k),
                              ScaleRect(bi, k), ScaleRect(bj, k))>>]
        /\ UNCHANGED <<scaleInput, trackerVars, contourVars, loopVars, mouseVars>>

NextGates ==
    \/ ApplyDistanceGate
    \/ ApplyMergeGate

SpecGates == InitGates /\ [][NextGates]_vars

----------------------------------------------------------------------------
(* The frame loop of main and the mouse callback.  HighGUI is              *)
(* single-threaded: it delivers mouse events to the callback from inside   *)
(* cv::waitKey, so the callback runs while main is in hasFrame, any number *)
(* of times per call.  What findContours and update do to a frame is the   *)
(* subject of FindContours and of the two update actions above; here a     *)
(* frame counts the calls.                                                 *)

\* cv::Rect(pt1, pt2)
RectFromCorners(p, q) ==
    [x |-> IF p[1] <= q[1] THEN p[1] ELSE q[1],
     y |-> IF p[2] <= q[2] THEN p[2] ELSE q[2],
     width |-> Abs(p[1] - q[1]), height |-> Abs(p[2] - q[2])]

\* main.cpp:49 with || for &&
LoopContinuesEither(hasNotQuit, hasAnotherFrame) ==
    hasNotQuit \/ hasAnotherFrame

\* main.cpp:49: return hasNotQuit && hasAnotherFrame
LoopContinues(hasNotQuit, hasAnotherFrame) ==
    hasNotQuit /\ hasAnotherFrame

\* main.cpp:153-228: the command line is read and the source opened, or not
InitLoop ==
    /\ pc = "hasFrame"
    /\ opened \in BOOLEAN
    /\ framesLeft \in 0..MaxSourceFrames
    /\ opened = FALSE => framesLeft = 0
    /\ outputPathGiven \in BOOLEAN
    /\ LoopUnstarted
    /\ MouseUnused
    /\ contourSizeThreshold = 0
    /\ ContourFinderUnused
    /\ GatesUnused
    /\ TrackerUnused

\* main.cpp:25-39: mouseHandler(event, x, y, flags, param), called from
\* inside cv::waitKey (line 47)
mouseHandler(event, p) ==
    /\ pc = "hasFrame"
    /\ Len(mouseEvents) < MaxMouseEvents
    /\ mouseEvents' = Append(mouseEvents, event)
    /\ IF event = "LBUTTONDOWN" /\ ~isDragging
       THEN /\ point1' = p
            /\ isDragging' = TRUE
            /\ pressedAt' = <<p>>
            /\ UNCHANGED <<point2, hasRectangle, triggerCallback, drags>>
       ELSE IF event = "MOUSEMOVE" /\ isDragging
       THEN /\ point2' = p
            /\ hasRectangle' = TRUE
            /\ UNCHANGED <<point1, isDragging, triggerCallback, pressedAt, drags>>
       ELSE IF event = "LBUTTONUP" /\ isDragging
       THEN /\ point2' = p
            /\ isDragging' = FALSE
            /\ triggerCallback' = TRUE
            /\ hasRectangle' = FALSE
            /\ drags' = Append(drags, [press |-> pressedAt[1], release |-> p])
            /\ pressedAt' = <<>>
            /\ UNCHANGED point1
       ELSE UNCHANGED <<isDragging, hasRectangle, triggerCallback, point1,
                        point2, pressedAt, drags>>
    /\ UNCHANGED <<suppressCalls, loopVars, trackerVars, contourVars, gateVars>>

\* main.cpp:46-50, 231: hasFrame(capture); grab is called whatever the key
HasFrame(key) ==
    /\ pc = "hasFrame"
    /\ LET hasNotQuit      == key # "q"
           hasAnotherFrame == opened /\ framesLeft > 0
       IN  /\ framesLeft' = IF hasAnotherFrame THEN framesLeft - 1 ELSE framesLeft
           /\ boundaries' = Append(boundaries,
                                   [hasNotQuit |-> hasNotQuit,
                                    hasAnotherFrame |-> hasAnotherFrame])
           /\ pc' = IF LoopContinues(hasNotQuit, hasAnotherFrame)
                    THEN "retrieve" ELSE "log"
    /\ UNCHANGED <<opened, outputPathGiven, trackerIsNull, mainFrameNumber, counts>>
    /\ UNCHANGED <<mouseVars, trackerVars, contourVars, gateVars>>

\* main.cpp:233-241: the frame is fetched and counted
Retrieve ==
    /\ pc = "retrieve"
    /\ mainFrameNumber' = mainFrameNumber + 1
    /\ pc' = "track"
    /\ UNCHANGED <<opened, framesLeft, outputPathGiven, trackerIsNull, counts,
                   boundaries>>
    /\ UNCHANGED <<mouseVars, trackerVars, contourVars, gateVars>>

\* main.cpp:246-273: the tracker is built if there is none, the contours
\* are found and the tracker updated
Track ==
    /\ pc = "track"
    /\ trackerIsNull' = FALSE
    /\ counts' = [counts EXCEPT
                     !.trackers = IF trackerIsNull THEN @ + 1 ELSE @,
                     !.trackerFrame = IF trackerIsNull THEN mainFrameNumber ELSE @,
                     !.updates = @ + 1]
    /\ pc' = "mouse"
    /\ UNCHANGED <<opened, framesLeft, outputPathGiven, mainFrameNumber, boundaries>>
    /\ UNCHANGED <<mouseVars, trackerVars, contourVars, gateVars>>

\* main.cpp:276-285: a finished drag is handed to the contour finder, and
\* the frame is shown
HandleMouseCallbacks ==
    /\ pc = "mouse"
    /\ IF triggerCallback
       THEN /\ triggerCallback' = FALSE
            /\ suppressed' = <<RectFromCorners(point1, point2)>>
            /\ suppressCalls' = Append(suppressCalls, <<point1, point2>>)
       ELSE UNCHANGED <<triggerCallback, suppressed, suppressCalls>>
    /\ counts' = [counts EXCEPT !.shown = @ + 1]
    /\ pc' = "hasFrame"
    /\ UNCHANGED <<opened, framesLeft, outputPathGiven, trackerIsNull,
                   mainFrameNumber, boundaries>>
    /\ UNCHANGED <<isDragging, hasRectangle, point1, point2, mouseEvents,
                   pressedAt, drags>>
    /\ UNCHANGED <<contourSizeThreshold, foreground, filtered, firstCenters,
                   firstBoxes, contours, mc, boundRect, trackerVars, gateVars>>

\* main.cpp:290-295: the log is written if a path was given; return 0
LogAndReturn ==
    /\ pc = "log"
    /\ counts' = [counts EXCEPT !.logs = IF outputPathGiven THEN @ + 1 ELSE @]
    /\ pc' = "done"
    /\ UNCHANGED <<opened, framesLeft, outputPathGiven, trackerIsNull,
                   mainFrameNumber, boundaries>>
    /\ UNCHANGED <<mouseVars, trackerVars, contourVars, gateVars>>

MouseEventKinds == {"LBUTTONDOWN", "MOUSEMOVE", "LBUTTONUP"}

\* what (char) cv::waitKey(1) returns: q, or anything else
Keys == {"q", "none"}

NextLoop ==
    \/ \E event \in MouseEventKinds, p \in Points : mouseHandler(event, p)
    \/ \E key \in Keys : HasFrame(key)
    \/ Retrieve
    \/ Track
    \/ HandleMouseCallbacks
    \/ LogAndReturn

SpecLoop == InitLoop /\ [][NextLoop]_vars

\* the statements of main, which runs on whatever the user does
MainStep ==
    \/ \E key \in Keys : HasFrame(key)
    \/ Retrieve
    \/ Track
    \/ HandleMouseCallbacks
    \/ LogAndReturn

\* main is never blocked: cv::waitKey(1) returns after a millisecond and
\* grab returns at the end of the source
FairSpecLoop == SpecLoop /\ WF_vars(MainStep)

----------------------------------------------------------------------------
(* Properties of update *)

Pool == 1..Len(kalmanTrackers)

EmittedIds == {outputPredictions[k].id : k \in 1..Len(outputPredictions)}

\* the last call had detections
LastHadDetections == massCenters # <<>>

\* the last call had no detections
LastWasEmpty == frameNumber > 0 /\ massCenters = <<>>

\* in the last call the solver paired tracker i and the gate dropped the pair
GateRejected(i) == solved[i] # -1 /\ gated[i] = -1

\* C1: after every call to update, with or without detections, no tracker
\* left in the pool has missed more frames than missedFramesThreshold.
C1_MissedWithinThreshold ==
    \A i \in Pool :
        kalmanTrackers[i].numFramesWithoutUpdate <= missedFramesThreshold

\* a call has erased a tracker and left another one exactly on the threshold
C1_Witness ==
    /\ removed # <<>>
    /\ missedFramesThreshold > 0
    /\ \E i \in Pool :
        kalmanTrackers[i].numFramesWithoutUpdate = missedFramesThreshold

\* C2: a tracker that for missedFramesThreshold + 1 consecutive frames is
\* neither paired after gating nor updated by the occlusion rule is out of
\* the pool at the end of the last of them, whether those frames were empty,
\* left it unassigned by the solver, or had its pairing rejected by the gate.
C2_UnupdatedTrackerIsRemoved ==
    \A i \in Pool : kalmanTrackers[i].h.unupd <= missedFramesThreshold

\* C3: when the gate drops the pair the solver gave a tracker and no
\* bounding box contains the tracker's latest prediction, the tracker ends
\* the frame with one more missed frame than it started with.
C3_GateRejectionCountsAsMiss ==
    \A i \in 1..Len(solved) :
        (GateRejected(i) /\ ~Occluded(trackersAtSolve[i], boundingRects))
        => \A k \in Pool :
            kalmanTrackers[k].id = trackersAtSolve[i].id
            => kalmanTrackers[k].numFramesWithoutUpdate
                   = trackersAtSolve[i].numFramesWithoutUpdate + 1

\* C4: in a frame with detections, after gating and deaths, no two
\* surviving trackers are paired with the same detection, and each entry of
\* the assignment is -1 or one detection of the frame.
C4_AssignmentOneToOne ==
    /\ \A i \in 1..Len(assignment) :
        assignment[i] = -1 \/ assignment[i] \in 1..Len(massCenters)
    /\ \A i, k \in 1..Len(assignment) :
        (i # k /\ assignment[i] # -1) => assignment[i] # assignment[k]

\* two survivors are paired, with different detections, in a frame whose
\* death step erased a tracker
C4_Witness ==
    /\ removed # <<>>
    /\ \E i, k \in 1..Len(assignment) :
        i # k /\ assignment[i] # -1 /\ assignment[k] # -1

\* C5: a tracker with no missed frame that is then fed only frames without
\* detections stays in the pool through the first missedFramesThreshold of
\* them and is erased in frame missedFramesThreshold + 1, not earlier and
\* not later; nothing is emitted for an erased tracker.
C5_EmptyFramesRemoveExactlyOnTime ==
    /\ \A i \in Pool : kalmanTrackers[i].h.run0 <= missedFramesThreshold
    /\ LastWasEmpty =>
        \A k \in 1..Len(removed) :
            removed[k].h.run0 >= 0 => removed[k].h.run0 = missedFramesThreshold + 1
    /\ \A k \in 1..Len(removed) :
        removed[k].id \notin EmittedIds /\ removed[k].id \notin Ids(kalmanTrackers)

\* a tracker has been erased by the last of threshold + 1 empty frames
C5_Witness ==
    /\ LastWasEmpty
    /\ missedFramesThreshold > 0
    /\ \E k \in 1..Len(removed) : removed[k].h.run0 = missedFramesThreshold + 1

\* C6: from an empty pool, with one detection at the same centroid in every
\* frame, nothing is emitted in frames 1..lifetimeThreshold and exactly one
\* prediction in every later frame, always from the one tracker created in
\* the first of these frames; no second tracker is ever created.
C6_StationaryObject ==
    stationary # <<>> =>
        /\ Len(kalmanTrackers) = 1
        /\ kalmanTrackers[1].id = stationary[1].id
        /\ idCounter = stationary[1].id
        /\ stationary[1].frames <= lifetimeThreshold => outputPredictions = <<>>
        /\ stationary[1].frames > lifetimeThreshold =>
            /\ Len(outputPredictions) = 1
            /\ outputPredictions[1].id = stationary[1].id

\* the object has been shown for the second time
C6_Witness ==
    /\ stationary # <<>>
    /\ lifetimeThreshold > 0
    /\ stationary[1].frames > lifetimeThreshold + 1
    /\ outputPredictions # <<>>

\* C7: every tracker is first emitted the same number of frames after its
\* creation, however it was created and whatever the frames in between.
C7_SameWarmUpForEveryTracker ==
    \A i, k \in Pool :
        (kalmanTrackers[i].h.emitAge # -1 /\ kalmanTrackers[k].h.emitAge # -1)
        => kalmanTrackers[i].h.emitAge = kalmanTrackers[k].h.emitAge

\* C8: the output of a call is exactly one prediction for each tracker of
\* the pool whose lifetime exceeds lifetimeThreshold and nothing else:
\* nothing from an earlier call, nothing for an erased tracker.
C8_OutputIsTheVisibleTrackers ==
    LET visible == {i \in Pool : kalmanTrackers[i].lifetime > lifetimeThreshold}
    IN  /\ Len(outputPredictions) = Cardinality(visible)
        /\ \A i \in visible :
            \E k \in 1..Len(outputPredictions) :
                /\ outputPredictions[k].id = kalmanTrackers[i].id
                /\ outputPredictions[k].location = kalmanTrackers[i].prediction
        /\ \A k \in 1..Len(outputPredictions) :
            \E i \in visible : outputPredictions[k].id = kalmanTrackers[i].id

\* a call emits for one tracker while a younger one stays hidden, after a
\* call that emitted as well
C8_Witness ==
    /\ outputPredictions # <<>>
    /\ frameNumber > lifetimeThreshold + 1
    /\ \E i \in Pool : kalmanTrackers[i].lifetime <= lifetimeThreshold
    /\ \E i \in Pool : kalmanTrackers[i].lifetime > lifetimeThreshold + 1

\* the detections of the last call that no surviving tracker is paired with
Unpaired ==
    {j \in 1..Len(massCenters) : \A i \in 1..Len(assignment) : assignment[i] # j}

\* the trackers of the pool that the last call created in its births step
Newborn ==
    {k \in Pool : kalmanTrackers[k].h.via = "births" /\ kalmanTrackers[k].h.age = 0}

\* C9: in a frame with detections, every detection not paired with a
\* surviving tracker after gating creates exactly one tracker, seeded at its
\* centroid, a paired detection creates none, and the pool ends with the
\* survivors plus one tracker per unpaired detection.
C9_BirthsAreTheUnpairedDetections ==
    LastHadDetections =>
        /\ Len(kalmanTrackers)
               = Len(trackersAtSolve) - Len(removed) + Cardinality(Unpaired)
        /\ Cardinality(Newborn) = Cardinality(Unpaired)
        /\ \A j \in Unpaired :
            \E k \in Newborn :
                /\ kalmanTrackers[k].prediction = massCenters[j]
                /\ kalmanTrackers[k].lifetime = 0
                /\ \A m \in Newborn :
                    kalmanTrackers[m].prediction = massCenters[j] => m = k
        /\ \A k \in Newborn :
            \E j \in Unpaired : kalmanTrackers[k].prediction = massCenters[j]

\* a call into a non-empty pool pairs one detection and starts a tracker
\* for the other
C9_Witness ==
    /\ LastHadDetections
    /\ trackersAtSolve[1].h.age > 0
    /\ Unpaired # {}
    /\ \E i \in 1..Len(assignment) : assignment[i] # -1

\* C10: over any sequence of frames, births after deaths included, the IDs
\* in the pool are distinct and strictly increasing in creation order, and
\* a tracker created by a call gets an ID above every ID handed out before,
\* so the ID of an erased tracker is never used again.
C10_IdsIncreaseAndAreNeverReused ==
    [][/\ \A i, k \in 1..Len(kalmanTrackers') :
            i < k => kalmanTrackers'[i].id < kalmanTrackers'[k].id
       /\ \A i \in 1..Len(kalmanTrackers') :
            \/ kalmanTrackers'[i].id \in Ids(kalmanTrackers)
            \/ kalmanTrackers'[i].id > idCounter
       /\ \A i \in 1..Len(kalmanTrackers') : kalmanTrackers'[i].id <= idCounter'
       /\ idCounter' >= idCounter]_vars

\* a call has erased a tracker and created another
C10_Witness ==
    /\ removed # <<>>
    /\ Newborn # {}
    /\ idCounter >= 3

\* C11: every tracker left unassigned after gating, by the solver or by the
\* gate, whose latest prediction lies inside some detection's bounding box
\* ends the frame in the pool with numFramesWithoutUpdate = 0, and the rule
\* pairs no detection with it.
C11_OccludedTrackerIsKept ==
    \A i \in 1..Len(gated) :
        (gated[i] = -1 /\ Occluded(trackersAtSolve[i], boundingRects)) =>
            \E k \in Pool :
                /\ kalmanTrackers[k].id = trackersAtSolve[i].id
                /\ kalmanTrackers[k].numFramesWithoutUpdate = 0
                /\ assignment[k] = -1

\* a tracker that had missed a frame is unassigned and inside a box
C11_Witness ==
    \E i \in 1..Len(gated) :
        /\ gated[i] = -1
        /\ Occluded(trackersAtSolve[i], boundingRects)
        /\ trackersAtSolve[i].numFramesWithoutUpdate > 0

\* the last call found the pool empty and created it from its detections
LastFoundPoolEmpty ==
    /\ LastHadDetections
    /\ trackersAtSolve[1].h.via = "empty"
    /\ trackersAtSolve[1].lifetime = 0

\* C12: a call with detections that finds the pool empty leaves one tracker
\* per detection, seeded at that detection, and emits nothing.
C12_EmptyPoolStartsSilently ==
    LastFoundPoolEmpty =>
        /\ Len(kalmanTrackers) = Len(massCenters)
        /\ \A j \in 1..Len(massCenters) :
            kalmanTrackers[j].prediction = massCenters[j]
        /\ outputPredictions = <<>>

\* C13: a call without detections creates no tracker, applies
\* noUpdateThisFrame exactly once to every tracker of the pool, kept or
\* erased, leaves a pool that is part of the pool before, and with an empty
\* pool changes nothing and emits nothing.
C13_NoDetectionsOnlyAges ==
    [][(massCenters' = <<>> /\ frameNumber' = frameNumber + 1) =>
        /\ idCounter' = idCounter
        /\ Ids(kalmanTrackers') \subseteq Ids(kalmanTrackers)
        /\ \A i \in Pool :
            \E t \in Range(kalmanTrackers') \cup Range(removed') :
                /\ t.id = kalmanTrackers[i].id
                /\ t.numFramesWithoutUpdate
                       = kalmanTrackers[i].numFramesWithoutUpdate + 1
        /\ Len(kalmanTrackers') + Len(removed') = Len(kalmanTrackers)
        /\ kalmanTrackers = <<>> =>
            /\ kalmanTrackers' = <<>>
            /\ outputPredictions' = outputPredictions
            /\ outputPredictions' = <<>>]_vars

\* a call without detections has kept one tracker and erased another
C13_Witness ==
    /\ LastWasEmpty
    /\ kalmanTrackers # <<>>
    /\ removed # <<>>

----------------------------------------------------------------------------
(* Properties of findContours *)

\* the largest area among the blobs of the last mask, in units of 1/2 pixel
LargestArea ==
    MaxOf({0} \cup {contourArea(foreground[k]) : k \in 1..Len(foreground)})

\* C14: filterOutBadContours keeps a contour exactly when its area exceeds
\* contourSizeThreshold times the largest contour area, for areas that are
\* multiples of 0.5 and a threshold in [0, 1).
C14_SizeFilterIsRelative ==
    \A k \in 1..Len(foreground) :
        foreground[k] \in Range(filtered)
            <=> contourArea(foreground[k]) * SizeThresholdDen
                    > contourSizeThreshold * LargestArea

C16_DegenerateContourIsSkipped ==
    /\ \A k \in 1..Len(firstCenters) : firstCenters[k].d # 0
    /\ \A k \in 1..Len(mc) : mc[k].d # 0
    /\ Len(mc) = Cardinality({k \in 1..Len(contours) : contourArea(contours[k]) # 0})
    /\ Len(boundRect) = Len(mc)

\* contours i and j of the filtered set pass the merge gate on the centers
\* and boxes handed to mergeContours
Related(i, j) ==
    /\ i # j
    /\ MergeGate(firstCenters[i], firstCenters[j], firstBoxes[i], firstBoxes[j])

\* the contours a chain of related pairs reaches from those of S
RECURSIVE Chained(_)
Chained(S) ==
    LET T == S \cup {j \in 1..Len(filtered) : \E i \in S : Related(i, j)}
    IN  IF T = S THEN S ELSE Chained(T)

\* output contour k holds the points of contour i of the filtered set
MergedInto(i, k) == Range(filtered[i]) \subseteq Range(contours[k])

\* C17: mergeContours puts contours i and j into the same output contour
\* exactly when a chain of pairs that pass the strict gate on the pre-merge
\* centers and boxes connects them, and it hands back one contour per class
\* of that relation.
C17_MergeIsTheClosureOfTheGate ==
    /\ \A i, j \in 1..Len(filtered) :
        (\E k \in 1..Len(contours) : MergedInto(i, k) /\ MergedInto(j, k))
            <=> j \in Chained({i})
    /\ Len(contours) = Cardinality({Chained({i}) : i \in 1..Len(filtered)})

\* three contours became one although the first and the last do not pass
\* the gate
C17_Witness ==
    /\ Len(filtered) = 3
    /\ ~Related(1, 3)
    /\ Len(contours) = 1

\* the contours of the filtered set that output contour k holds, ascending
Members(k) ==
    SelectSeq([i \in 1..Len(filtered) |-> i], LAMBDA i : MergedInto(i, k))

\* the point sequences of ss, one after the other
RECURSIVE Concatenation(_)
Concatenation(ss) ==
    IF ss = <<>> THEN <<>> ELSE Head(ss) \o Concatenation(Tail(ss))

\* C18: mergeContours conserves points: every output contour is the
\* concatenation of the point sequences of its members in index order, a
\* single member is handed back unchanged, every input contour lies in
\* exactly one output contour, and the number of points is the same before
\* and after.
C18_MergeConservesPoints ==
    /\ \A k \in 1..Len(contours) :
        /\ Members(k) # <<>>
        /\ contours[k]
              = Concatenation([m \in 1..Len(Members(k)) |-> filtered[Members(k)[m]]])
    /\ \A i \in 1..Len(filtered) :
        Cardinality({k \in 1..Len(contours) : MergedInto(i, k)}) = 1
    /\ SumSeq([k \in 1..Len(contours) |-> Len(contours[k])])
          = SumSeq([i \in 1..Len(filtered) |-> Len(filtered[i])])

\* of three contours two were merged and one was handed back alone
C18_Witness ==
    /\ Len(filtered) = 3
    /\ Len(contours) = 2
    /\ \E k \in 1..2 : Len(Members(k)) = 2

\* C19: after every call of findContours the vectors contours, mc and
\* boundRect have the same length and entry k of each describes the same
\* merged contour, whatever the three vectors held on entry.
C19_OutputsAreAligned ==
    /\ Len(mc) = Len(contours)
    /\ Len(boundRect) = Len(contours)
    /\ \A k \in 1..Len(contours) :
        /\ mc[k] = MassCenter(contours[k])
        /\ boundRect[k] = BoundingRect(contours[k])

\* a call has handed back a merged contour and a single one, each with its
\* own center and box
C19_Witness ==
    /\ Len(contours) = 2
    /\ Len(filtered) = 3
    /\ mc[1] # mc[2]
    /\ boundRect[1] # boundRect[2]

\* C20: once suppressRectangle has set a rectangle, every later call of
\* findContours extracts its contours from a mask whose pixels inside the
\* rectangle set last are background, so that no blob lying inside that
\* rectangle is extracted or handed back.
C20_SuppressedRegionIsMasked ==
    [][(suppressed # <<>> /\ suppressed' = suppressed) =>
        /\ \A k \in 1..Len(foreground') :
            ~ContourInside(foreground'[k], suppressed[1])
        /\ \A k \in 1..Len(contours') :
            ~ContourInside(contours'[k], suppressed[1])]_vars

----------------------------------------------------------------------------
(* Properties of the gates *)

\* C21: the distance gate of update and the merge gate of mergeContours
\* decide the same when every coordinate, every bounding-box side and the
\* frame size are multiplied by the same positive integer.
C21_GatesAreScaleInvariant ==
    /\ scaleDecisions.distance # <<>> =>
        scaleDecisions.distance[1] = scaleDecisions.distance[2]
    /\ scaleDecisions.merge # <<>> =>
        scaleDecisions.merge[1] = scaleDecisions.merge[2]

\* with a factor above 1, a pair exactly on the distance gate was kept and
\* two contours inside the merge gate were merged
C21_Witness ==
    /\ scaleInput[1].factor > 1
    /\ 2 * DistanceThresholdDen * Norm(scaleInput[1].prediction, scaleInput[1].center)
          = DistanceThresholdNum * (FrameHeight + FrameWidth)
    /\ scaleDecisions.distance = <<FALSE, FALSE>>
    /\ scaleDecisions.merge = <<TRUE, TRUE>>

----------------------------------------------------------------------------
(* Properties of the update step *)

\* the calls made on t from its first predict() on
FromPredict(t) ==
    LET c  == t.h.calls
        at == {k \in 1..Len(c) : c[k].op = "predict"}
    IN  IF at = {} THEN <<>>
        ELSE LET first == CHOOSE k \in at : \A m \in at : k <= m
             IN  SubSeq(c, first, Len(c))

\* the value gating left for the tracker with this ID, -1 if the tracker
\* was not in the pool when the solver ran
GatedFor(id) ==
    LET at == {k \in 1..Len(trackersAtSolve) : trackersAtSolve[k].id = id}
    IN  IF at = {} THEN -1 ELSE gated[CHOOSE k \in at : TRUE]

\* predict(), then correct(observation) and gotUpdate() for a paired
\* tracker, correct() without an observation for any other
FilterStep(id) ==
    IF GatedFor(id) # -1
    THEN <<[op |-> "predict", arg |-> <<>>],
           [op |-> "correct", arg |-> <<massCenters[GatedFor(id)]>>],
           [op |-> "gotUpdate", arg |-> <<>>]>>
    ELSE <<[op |-> "predict", arg |-> <<>>],
           [op |-> "correct", arg |-> <<>>]>>

\* no predict() and no correct() was called on t in this frame
NotStepped(t) ==
    \A k \in 1..Len(t.h.calls) : t.h.calls[k].op \notin {"predict", "correct"}

SolvedCost(i, j) == Norm(latestPrediction(trackersAtSolve[i]), massCenters[j])

\* cost <= distanceThreshold * 0.5 * (height + width)
WithinGate(c) ==
    2 * DistanceThresholdDen * c <= DistanceThresholdNum * (FrameHeight + FrameWidth)

\* C23: a pair returned by the solver survives gating exactly if its cost is
\* at most distanceThreshold * 0.5 * (height + width), a cost on the gate
\* included; gating creates no pair and leaves the detection of a kept pair
\* as it is.
C23_GateKeepsExactlyTheNearPairs ==
    LastHadDetections =>
        /\ Len(gated) = Len(solved)
        /\ \A i \in 1..Len(solved) :
              IF solved[i] # -1 /\ WithinGate(SolvedCost(i, solved[i]))
              THEN gated[i] = solved[i]
              ELSE gated[i] = -1

\* the solver returned a pair whose cost is exactly the gate and a pair
\* whose cost is above it
C23_Witness ==
    /\ LastHadDetections
    /\ \E i \in 1..Len(solved) :
          /\ solved[i] # -1
          /\ 2 * DistanceThresholdDen * SolvedCost(i, solved[i])
                = DistanceThresholdNum * (FrameHeight + FrameWidth)
          /\ gated[i] = solved[i]
    /\ \E i \in 1..Len(solved) :
          /\ solved[i] # -1
          /\ ~WithinGate(SolvedCost(i, solved[i]))
          /\ gated[i] = -1

\* the trackers the solver saw that the death step left in the pool
Survivors == SelectSeq(trackersAtSolve, LAMBDA t : t.id \notin Ids(removed))

\* the trackers that were in the pool when update was entered and that the
\* death step left in it
PreExistingSurvivors == IF LastFoundPoolEmpty THEN <<>> ELSE Survivors

\* the trackers of the pool that the last call created, by either path
BornThisFrame == {k \in Pool : kalmanTrackers[k].h.age = 0}

\* C24: after the death step of a frame with detections the assignment
\* vector has one entry per surviving pre-existing tracker, entry k is the
\* value gating left for the k-th survivor, the update step corrects each
\* survivor with the detection paired with it, stays inside the pool, and
\* makes no call on a tracker created in this frame.
C24_AssignmentFollowsSurvivors ==
    LastHadDetections =>
        /\ Len(assignment) = Len(PreExistingSurvivors)
        /\ Len(assignment) <= Len(kalmanTrackers)
        /\ \A k \in 1..Len(assignment) :
              /\ kalmanTrackers[k].id = PreExistingSurvivors[k].id
              /\ assignment[k] = GatedFor(kalmanTrackers[k].id)
              /\ assignment[k] # -1 =>
                    latestPrediction(kalmanTrackers[k]) = massCenters[assignment[k]]
        /\ \A k \in BornThisFrame : NotStepped(kalmanTrackers[k])

\* the trackers ahead of the i-th tracker the solver saw that the death
\* step removed
RemovedAhead(i) ==
    Cardinality({j \in 1..(i - 1) : trackersAtSolve[j].id \in Ids(removed)})

\* C25 as stated: a tracker paired after gating is not removed in that
\* frame, and a tracker paired in every frame keeps its ID and its index in
\* the pool.
C25_PairedTrackerKeepsItsSlot ==
    /\ LastHadDetections =>
          \A i \in 1..Len(gated) :
              gated[i] # -1 => trackersAtSolve[i].id \notin Ids(removed)
    /\ \A k \in Pool :
          kalmanTrackers[k].h.paired => k = kalmanTrackers[k].h.slot

\* C25 amended: a tracker paired after gating is not removed in that frame
\* and keeps its ID; its index in the pool drops by the number of trackers
\* ahead of it that the frame removed, so a tracker paired in every frame
\* stays in the pool under its ID, behind the survivors that were ahead of
\* it, at an index that is at most the one it was created at.
C25_PairedTrackerStaysInThePool ==
    /\ LastHadDetections =>
          \A i \in 1..Len(gated) :
              gated[i] # -1 =>
                  /\ trackersAtSolve[i].id \notin Ids(removed)
                  /\ i - RemovedAhead(i) \in Pool
                  /\ kalmanTrackers[i - RemovedAhead(i)].id = trackersAtSolve[i].id
    /\ \A k \in Pool :
          kalmanTrackers[k].h.paired => k <= kalmanTrackers[k].h.slot
    /\ \A k, m \in Pool : k < m => kalmanTrackers[k].id < kalmanTrackers[m].id

\* a tracker that was paired in every frame since its creation is at a
\* lower index than the one it was created at, in a frame that removed the
\* tracker ahead of it
C25_Witness ==
    /\ LastHadDetections
    /\ \E i \in 1..Len(gated) :
          /\ gated[i] # -1
          /\ RemovedAhead(i) > 0
          /\ kalmanTrackers[i - RemovedAhead(i)].h.paired
          /\ i - RemovedAhead(i) < kalmanTrackers[i - RemovedAhead(i)].h.slot

\* C26: every filter in the pool, created into an empty pool or by the
\* births step, was constructed with the dt and the acceleration noise the
\* MultiObjectTracker was constructed with.
C26_EveryFilterIsConfigured ==
    \A k \in Pool :
        /\ kalmanTrackers[k].dt = dt
        /\ kalmanTrackers[k].magnitudeOfAccelerationNoise
             = magnitudeOfAccelerationNoise

----------------------------------------------------------------------------
(* Properties of the frame loop *)

\* at this evaluation of hasFrame the user had not quit and the source had
\* another frame
Passed(b) == b.hasNotQuit /\ b.hasAnotherFrame

\* the evaluations of hasFrame that let the loop go on
PassedBoundaries == {k \in 1..Len(boundaries) : Passed(boundaries[k])}

\* C27: the loop processes whole frames until the first evaluation of
\* hasFrame at which q was pressed or the source had no further frame and
\* then stops; the tracker is built once, in the first frame; the log is
\* written once, after the loop, and only if an output path was given; if
\* the source never opened no frame is processed and main still returns.
C27_LoopStopsAtFirstBoundary ==
    /\ [](/\ \A k \in 1..(Len(boundaries) - 1) : Passed(boundaries[k])
          /\ pc \in {"log", "done"} <=>
                (boundaries # <<>> /\ ~Passed(boundaries[Len(boundaries)]))
          /\ mainFrameNumber =
                Cardinality(PassedBoundaries) - (IF pc = "retrieve" THEN 1 ELSE 0)
          /\ pc \in {"hasFrame", "log", "done"} =>
                /\ counts.updates = mainFrameNumber
                /\ counts.shown = mainFrameNumber
          /\ counts.trackers = (IF counts.updates >= 1 THEN 1 ELSE 0)
          /\ counts.trackers = 1 => counts.trackerFrame = 1
          /\ trackerIsNull <=> counts.trackers = 0
          /\ counts.logs = (IF pc = "done" /\ outputPathGiven THEN 1 ELSE 0)
          /\ ~opened => mainFrameNumber = 0 /\ Len(boundaries) <= 1)
    /\ (~opened ~> pc = "done")

\* main has returned after it processed two frames and the user pressed q
\* while the source had another frame, and it wrote the log
C27_Witness ==
    /\ pc = "done"
    /\ mainFrameNumber = 2
    /\ counts.shown = 2
    /\ boundaries[Len(boundaries)]
         = [hasNotQuit |-> FALSE, hasAnotherFrame |-> TRUE]
    /\ counts.logs = 1

----------------------------------------------------------------------------
(* Properties of the mouse callback *)

\* the globals the callback and main share
MouseGlobals == <<isDragging, hasRectangle, triggerCallback, point1, point2>>

\* the corners of every suppressRectangle call made so far are the press
\* and the release point of one completed drag
CallsMatchDrags ==
    \A k \in 1..Len(suppressCalls) :
        \E d \in 1..Len(drags) :
            suppressCalls[k] = <<drags[d].press, drags[d].release>>

\* C28: however mouse events and frames interleave, each suppressRectangle
\* call gets the press and the release point of one completed drag, every
\* completed drag has had its one call when the frame that follows it is
\* done, and a move or a button-up outside a drag and a button-down during
\* a drag change nothing.
C28_EachDragIsSuppressedOnce ==
    [][/\ CallsMatchDrags'
       /\ Len(suppressCalls') <= Len(drags')
       /\ (pc = "mouse" /\ pc' = "hasFrame") =>
             Len(suppressCalls') = Len(drags')
       /\ mouseEvents' # mouseEvents =>
             LET event == mouseEvents'[Len(mouseEvents')]
             IN  \/ event = "LBUTTONDOWN" /\ ~isDragging
                 \/ event \in {"MOUSEMOVE", "LBUTTONUP"} /\ isDragging
                 \/ /\ MouseGlobals' = MouseGlobals
                    /\ drags' = drags
                    /\ suppressCalls' = suppressCalls
                    /\ suppressed' = suppressed]_vars

====
